---- MODULE Spec2Model ----
(***************************************************************************)
(* Model of the classroom bootstrap/teardown scripts:                      *)
(*   Solutions/Includes/_dbacademy_helper.py  (class DBAcademyHelper)      *)
(*   Includes/Reset.py                        (the Reset notebook)         *)
(*                                                                         *)
(* A Python str is a sequence of one-character strings; a character that   *)
(* is not ASCII is written by its code point ("U+212A").  Catalog names    *)
(* are only ever compared and interpolated whole, so they are atoms.       *)
(* Every method is one action; the external calls it makes are recorded,   *)
(* in order, in call.log.  An external call may raise: failAt is the       *)
(* position, among the calls of the method, of the call that raises (0:    *)
(* none does), awaitFails the streams whose awaitTermination() raises.     *)
(***************************************************************************)
EXTENDS Integers, Sequences, FiniteSets, TLC

VARIABLES
    current_user,   \* engine: what SELECT current_user() answers
    dbs,            \* engine: catalog -> set of database names
    cur_catalog,    \* session: active catalog
    cur_db,         \* session: active database
    conf,           \* session: spark.conf entries da.catalog, da.db_name
    active,         \* spark.streams.active, in list order
    fs,             \* filesystem: set of existing paths
    args,           \* the arguments DA was constructed with
    DA,             \* the DBAcademyHelper object
    call            \* the last method or script run, with its external calls

vars == <<current_user, dbs, cur_catalog, cur_db, conf, active, fs, args, DA, call>>

----------------------------------------------------------------------------
(* Bounds of the model *)

MaxUserLen == 2
MaxLessonLen == 2
MaxStreams == 2

----------------------------------------------------------------------------
(* Python strings *)

LowerLetters ==
    <<"a","b","c","d","e","f","g","h","i","j","k","l","m",
      "n","o","p","q","r","s","t","u","v","w","x","y","z">>

UpperLetters ==
    <<"A","B","C","D","E","F","G","H","I","J","K","L","M",
      "N","O","P","Q","R","S","T","U","V","W","X","Y","Z">>

Digits == <<"0","1","2","3","4","5","6","7","8","9">>

Range(s) == { s[i] : i \in DOMAIN s }

\* the characters the class [a-zA-Z0-9] holds
Alnum == Range(LowerLetters) \cup Range(UpperLetters) \cup Range(Digits)

\* str.lower() of one character: a sequence, since U+0130 lowers to two
LowerChar(c) ==
    IF c \in Range(UpperLetters)
    THEN << LowerLetters[CHOOSE i \in DOMAIN UpperLetters : UpperLetters[i] = c] >>
    ELSE IF c = "U+212A" THEN << "k" >>
    ELSE IF c = "U+0130" THEN << "i", "U+0307" >>
    ELSE << c >>

RECURSIVE PyLower(_)
PyLower(s) == IF s = << >> THEN << >> ELSE LowerChar(Head(s)) \o PyLower(Tail(s))

\* Sanitize with a fault seeded, for mutation analysis: the class lacks 0-9
SanitizeNoDigits(s) ==
    [ i \in DOMAIN s |->
        IF s[i] \in Range(LowerLetters) \cup Range(UpperLetters) THEN s[i] ELSE "_" ]

\* re.sub("[^a-zA-Z0-9]", "_", s)
Sanitize(s) == [ i \in DOMAIN s |-> IF s[i] \in Alnum THEN s[i] ELSE "_" ]

\* str.startswith
StartsWith(s, p) == Len(p) <= Len(s) /\ SubSeq(s, 1, Len(p)) = p

----------------------------------------------------------------------------
(* DBAcademyHelper.__init__ *)

HIVE == "hive_metastore"

course_name == <<"n","c","o","u","c">>

Underscore == <<"_">>

DbAcademyLit == <<"d","b","a","c","a","d","e","m","y","_">>

DbfsUserLit == <<"d","b","f","s",":","/","u","s","e","r","/">>

DbAcademyDirLit == <<"/","d","b","a","c","a","d","e","m","y","/">>

\* the lesson argument: None, or a str
NoLesson == [ given |-> FALSE, str |-> << >> ]

SomeLesson(s) == [ given |-> TRUE, str |-> s ]

\* Python truth of the lesson argument: None and "" are false
Truthy(lesson) == lesson.given /\ lesson.str # << >>

\* CatalogList with a fault seeded, for mutation analysis: the default catalog is not singled out
CatalogListAlwaysTwo(catalog) == << catalog, HIVE >>

CatalogList(catalog) ==
    IF catalog = HIVE THEN << HIVE >> ELSE << catalog, HIVE >>

DbNamePrefix(username) ==
    DbAcademyLit \o Sanitize(username) \o Underscore \o course_name

WorkingDirPrefix(username) ==
    DbfsUserLit \o username \o DbAcademyDirLit \o course_name

\* DbName with a fault seeded, for mutation analysis: the lesson's name is not put behind the prefix
DbNameLessonOnly(prefix, lesson) ==
    IF Truthy(lesson) THEN Sanitize(PyLower(lesson.str)) ELSE prefix

DbName(prefix, lesson) ==
    IF Truthy(lesson)
    THEN prefix \o Underscore \o Sanitize(PyLower(lesson.str))
    ELSE prefix

Construct(username, lesson, catalog) ==
    [ course_name        |-> course_name,
      lesson             |-> IF Truthy(lesson) THEN SomeLesson(PyLower(lesson.str)) ELSE lesson,
      catalog            |-> catalog,
      catalogs           |-> CatalogList(catalog),
      username           |-> username,
      db_name_prefix     |-> DbNamePrefix(username),
      working_dir_prefix |-> WorkingDirPrefix(username),
      db_name            |-> DbName(DbNamePrefix(username), lesson),
      \* set by init only and read by nothing; FALSE stands for "not set yet".
      \* self.start and self.source_db_name are left out: start is only printed
      \* by conclude_setup, source_db_name is never used
      create_db          |-> FALSE ]

----------------------------------------------------------------------------
(* The external platform: SQL engine, stream registry, filesystem client *)

DefaultDb == <<"d","e","f","a","u","l","t">>

Slash == <<"/">>

\* the session and the stores behind it, as one value
Engine ==
    [ dbs |-> dbs, cur_catalog |-> cur_catalog, cur_db |-> cur_db,
      conf |-> conf, active |-> active, fs |-> fs ]

\* one external call; the fields a call does not use are empty
Stmt(op, cat, db, stream, path) ==
    [ op |-> op, cat |-> cat, db |-> db, stream |-> stream, path |-> path,
      raised |-> FALSE ]

SelectCurrentUser == Stmt("SELECT current_user()", "", << >>, 0, << >>)

ClearCache == Stmt("clearCache", "", << >>, 0, << >>)

CreateDatabase(c, db) == Stmt("CREATE DATABASE IF NOT EXISTS", c, db, 0, << >>)

UseCatalog(c) == Stmt("USE CATALOG", c, << >>, 0, << >>)

UseDb(db) == Stmt("USE", "", db, 0, << >>)

ShowDatabases == Stmt("SHOW DATABASES", "", << >>, 0, << >>)

\* c = "": the name is not qualified, the engine resolves it in the active catalog
DropDatabase(c, db) == Stmt("DROP DATABASE IF EXISTS CASCADE", c, db, 0, << >>)

StreamStop(st) == Stmt("stop", "", << >>, st, << >>)

AwaitTermination(st) == Stmt("awaitTermination", "", << >>, st, << >>)

ConfSetCatalog(c) == Stmt("conf.set da.catalog", c, << >>, 0, << >>)

ConfSetDbName(db) == Stmt("conf.set da.db_name", "", db, 0, << >>)

FsRm(path) == Stmt("fs.rm", "", << >>, 0, path)

IsUnder(p, dir) == p = dir \/ StartsWith(p, dir \o Slash)

RemoveAt(seq, x) == SelectSeq(seq, LAMBDA y : y # x)

\* what a call that succeeds does to the platform
Effect(e, s) ==
    CASE s.op = "CREATE DATABASE IF NOT EXISTS" ->
            [ e EXCEPT !.dbs[s.cat] = @ \cup { s.db } ]
      [] s.op = "DROP DATABASE IF EXISTS CASCADE" ->
            [ e EXCEPT !.dbs[IF s.cat = "" THEN e.cur_catalog ELSE s.cat] = @ \ { s.db } ]
      [] s.op = "USE CATALOG" ->
            [ e EXCEPT !.cur_catalog = s.cat, !.cur_db = DefaultDb ]
      [] s.op = "USE" ->
            [ e EXCEPT !.cur_db = s.db ]
      [] s.op = "stop" ->
            [ e EXCEPT !.active = RemoveAt(@, s.stream) ]
      [] s.op = "conf.set da.catalog" ->
            [ e EXCEPT !.conf.da_catalog = s.cat ]
      [] s.op = "conf.set da.db_name" ->
            [ e EXCEPT !.conf.da_db_name = s.db ]
      [] s.op = "fs.rm" ->
            [ e EXCEPT !.fs = { p \in @ : ~IsUnder(p, s.path) } ]
      [] OTHER -> e

\* the rows SHOW DATABASES answers in the active catalog, in the engine's order
RECURSIVE Rows(_)
Rows(S) ==
    IF S = {} THEN << >>
    ELSE LET x == CHOOSE y \in S : TRUE IN << x >> \o Rows(S \ { x })

----------------------------------------------------------------------------
(* Running a method: the platform so far, the calls made, an exception in flight *)

Start(e) == [ e |-> e, log |-> << >>, raised |-> FALSE ]

NoFaults == [ failAt |-> 0, awaitFails |-> {} ]

Fails(rs, s, faults) ==
    \/ Len(rs.log) + 1 = faults.failAt
    \/ s.op = "awaitTermination" /\ s.stream \in faults.awaitFails

\* an external call outside any try: once an exception is in flight nothing
\* more of the method runs; a call that raises has no effect
Call(rs, s, faults) ==
    IF rs.raised THEN rs
    ELSE IF Fails(rs, s, faults)
    THEN [ rs EXCEPT !.log = Append(@, [ s EXCEPT !.raised = TRUE ]), !.raised = TRUE ]
    ELSE [ rs EXCEPT !.e = Effect(@, s), !.log = Append(@, s) ]

----------------------------------------------------------------------------
(* DBAcademyHelper.init *)

RECURSIVE CreateLoop(_, _, _, _)
CreateLoop(rs, da, cs, faults) ==
    IF cs = << >> THEN rs
    ELSE CreateLoop(Call(rs, CreateDatabase(Head(cs), da.db_name), faults),
                    da, Tail(cs), faults)

\* InitRun with a fault seeded, for mutation analysis: the context is selected before the databases are made
InitRunUseFirst(da, e, create_db, faults) ==
    LET r0 == Call(Start(e), ClearCache, faults)
        r1 == Call(r0, UseCatalog(da.catalog), faults)
        r2 == Call(r1, UseDb(da.db_name), faults)
    IN  IF create_db THEN CreateLoop(r2, da, da.catalogs, faults) ELSE r0

InitRun(da, e, create_db, faults) ==
    LET r0 == Call(Start(e), ClearCache, faults)
        r1 == CreateLoop(r0, da, da.catalogs, faults)
        r2 == Call(r1, UseCatalog(da.catalog), faults)
        r3 == Call(r2, UseDb(da.db_name), faults)
    IN  IF create_db THEN r3 ELSE r0

----------------------------------------------------------------------------
(* DBAcademyHelper.cleanup *)

\* TryAwait with a fault seeded, for mutation analysis: no try around awaitTermination()
AwaitNoTry(rs, st, faults) == Call(rs, AwaitTermination(st), faults)

\* try: stream.awaitTermination()  except: pass
TryAwait(rs, st, faults) ==
    IF rs.raised THEN rs
    ELSE [ Call(rs, AwaitTermination(st), faults) EXCEPT !.raised = FALSE ]

\* StopStream with a fault seeded, for mutation analysis: stop() is inside the try as well
StopStreamInTry(rs, st, faults) ==
    IF rs.raised THEN rs
    ELSE TryAwait([ Call(rs, StreamStop(st), faults) EXCEPT !.raised = FALSE ], st, faults)

\* one round of the loop over spark.streams.active
StopStream(rs, st, faults) == TryAwait(Call(rs, StreamStop(st), faults), st, faults)

RECURSIVE StopLoop(_, _, _)
StopLoop(rs, streams, faults) ==
    IF streams = << >> THEN rs
    ELSE StopLoop(StopStream(rs, Head(streams), faults), Tail(streams), faults)

\* CleanupCatalog with a fault seeded, for mutation analysis: the catalog is not selected before the drop
CleanupCatalogNoUse(rs, da, c, faults) ==
    LET r2 == Call(rs, ShowDatabases, faults)
    IN  IF ~r2.raised /\ da.db_name \in rs.e.dbs[c]
        THEN Call(r2, DropDatabase("", da.db_name), faults)
        ELSE r2

\* one round of the loop over self.catalogs
CleanupCatalog(rs, da, c, faults) ==
    LET r1 == Call(rs, UseCatalog(c), faults)
        r2 == Call(r1, ShowDatabases, faults)
    IN  IF ~r2.raised /\ da.db_name \in r2.e.dbs[r2.e.cur_catalog]
        THEN Call(r2, DropDatabase("", da.db_name), faults)
        ELSE r2

RECURSIVE CleanupCatalogs(_, _, _, _)
CleanupCatalogs(rs, da, cs, faults) ==
    IF cs = << >> THEN rs
    ELSE CleanupCatalogs(CleanupCatalog(rs, da, Head(cs), faults), da, Tail(cs), faults)

CleanupRun(da, e, faults) ==
    CleanupCatalogs(StopLoop(Start(e), e.active, faults), da, da.catalogs, faults)

----------------------------------------------------------------------------
(* DBAcademyHelper.conclude_setup *)

ConcludeRun(da, e, faults) ==
    Call(Call(Start(e), ConfSetCatalog(da.catalog), faults),
         ConfSetDbName(da.db_name), faults)

----------------------------------------------------------------------------
(* Includes/Reset.py *)

\* ResetMatches with a fault seeded, for mutation analysis: every database is taken for the user's
ResetMatchesAll(da, name) == TRUE

\* ResetMatches with a fault seeded, for mutation analysis: only the database of the helper is taken
ResetMatchesExact(da, name) == name = da.db_name

\* db_name.startswith(DA.db_name_prefix)
ResetMatches(da, name) == StartsWith(name, da.db_name_prefix)

RECURSIVE ResetRows(_, _, _, _, _)
ResetRows(rs, da, c, rows, faults) ==
    IF rows = << >> THEN rs
    ELSE ResetRows(IF ResetMatches(da, Head(rows))
                   THEN Call(rs, DropDatabase(c, Head(rows)), faults)
                   ELSE rs,
                   da, c, Tail(rows), faults)

\* ResetCatalog with a fault seeded, for mutation analysis: a catalog that fails is skipped
ResetCatalogSkip(rs, da, c, faults) ==
    LET r1 == Call(rs, UseCatalog(c), faults)
        r2 == Call(r1, ShowDatabases, faults)
        r3 == IF r2.raised THEN r2
              ELSE ResetRows(r2, da, c, Rows(r2.e.dbs[r2.e.cur_catalog]), faults)
    IN  IF rs.raised THEN rs ELSE [ r3 EXCEPT !.raised = FALSE ]

\* one round of the loop over DA.catalogs
ResetCatalog(rs, da, c, faults) ==
    LET r1 == Call(rs, UseCatalog(c), faults)
        r2 == Call(r1, ShowDatabases, faults)
    IN  IF r2.raised THEN r2
        ELSE ResetRows(r2, da, c, Rows(r2.e.dbs[r2.e.cur_catalog]), faults)

RECURSIVE ResetCatalogs(_, _, _, _)
ResetCatalogs(rs, da, cs, faults) ==
    IF cs = << >> THEN rs
    ELSE ResetCatalogs(ResetCatalog(rs, da, Head(cs), faults), da, Tail(cs), faults)

\* the script from the construction of DA on; catalog is what Classroom-Setup left
ResetRun(user, e, catalog, faults) ==
    LET da == Construct(user, NoLesson, catalog)
        r0 == Call(Start(e), SelectCurrentUser, faults)
        r1 == Call(r0, SelectCurrentUser, faults)
        r2 == ResetCatalogs(r1, da, da.catalogs, faults)
    IN  Call(r2, FsRm(da.working_dir_prefix), faults)

----------------------------------------------------------------------------
(* The state machine *)

CatalogNames == { HIVE, "main" }

\* the external calls that may raise: any one call of the run, and any
\* awaitTermination()
FaultsOf(n, streams) ==
    [ failAt : 0..n, awaitFails : SUBSET Range(streams) ]

\* the platform after a run, and the record of the run
Commit(op, r, da, create_db, pre) ==
    /\ dbs' = r.e.dbs
    /\ cur_catalog' = r.e.cur_catalog
    /\ cur_db' = r.e.cur_db
    /\ conf' = r.e.conf
    /\ active' = r.e.active
    /\ fs' = r.e.fs
    /\ call' = [ op |-> op, da |-> da, create_db |-> create_db,
                 raised |-> r.raised, log |-> r.log, pre |-> pre ]

\* an exception that leaves a method or the script ends the notebook run
Running == ~call.raised

init ==
    /\ Running
    /\ \E create_db \in BOOLEAN :
       \E faults \in FaultsOf(Len(InitRun(DA, Engine, create_db, NoFaults).log), << >>) :
          LET r == InitRun(DA, Engine, create_db, faults)
              da == IF r.log[1].raised THEN DA ELSE [ DA EXCEPT !.create_db = create_db ]
          IN  /\ Commit("init", r, da, create_db, Engine)
              /\ DA' = da
              /\ UNCHANGED <<current_user, args>>

cleanup ==
    /\ Running
    /\ \E faults \in FaultsOf(Len(CleanupRun(DA, Engine, NoFaults).log), active) :
          /\ Commit("cleanup", CleanupRun(DA, Engine, faults), DA, FALSE, Engine)
          /\ UNCHANGED <<current_user, args, DA>>

conclude_setup ==
    /\ Running
    /\ \E faults \in FaultsOf(Len(ConcludeRun(DA, Engine, NoFaults).log), << >>) :
          /\ Commit("conclude_setup", ConcludeRun(DA, Engine, faults), DA, FALSE, Engine)
          /\ UNCHANGED <<current_user, args, DA>>

\* the Reset notebook builds a helper of its own; catalog is what Classroom-Setup left
Reset ==
    /\ Running
    /\ \E catalog \in CatalogNames :
       \E faults \in FaultsOf(Len(ResetRun(current_user, Engine, catalog, NoFaults).log), << >>) :
          /\ Commit("Reset", ResetRun(current_user, Engine, catalog, faults),
                    Construct(current_user, NoLesson, catalog), FALSE, Engine)
          /\ UNCHANGED <<current_user, args, DA>>

Next == init \/ cleanup \/ conclude_setup \/ Reset

\* sequences over S of length at most n
BSeq(S, n) == UNION { [ 1..k -> S ] : k \in 0..n }

\* the state after DBAcademyHelper(lesson, catalog) has been constructed:
\* whom is the <<user, lesson>> pairs, extra[w] the names that any catalog may
\* hold beside the default database
InitWith(whom, catalogs, extra, streams) ==
    /\ \E w \in whom :
          /\ current_user = w[1]
          /\ args \in [ lesson : { w[2] }, catalog : catalogs ]
          /\ dbs \in [ CatalogNames -> { { DefaultDb } \cup S : S \in SUBSET extra[w] } ]
    /\ DA = Construct(current_user, args.lesson, args.catalog)
    /\ cur_catalog = HIVE
    /\ cur_db = DefaultDb
    /\ conf = [ da_catalog |-> "", da_db_name |-> << >> ]
    /\ active \in { [ i \in 1..n |-> i ] : n \in streams }
    /\ fs = { WorkingDirPrefix(current_user),
              WorkingDirPrefix(current_user) \o Slash \o <<"f">>,
              DbfsUserLit \o current_user }
    /\ call = [ op |-> "__init__", da |-> DA, create_db |-> FALSE,
                raised |-> FALSE, log |-> << SelectCurrentUser >>,
                pre |-> [ dbs |-> dbs, cur_catalog |-> cur_catalog, cur_db |-> cur_db,
                          conf |-> conf, active |-> active, fs |-> fs ] ]

EngineUser == <<"J",".","d">>

LessonL1 == SomeLesson(<<"L","1">>)

\* a name that misses the prefix by its last character
NearMiss(user) == SubSeq(DbNamePrefix(user), 1, Len(DbNamePrefix(user)) - 1)

(* Spec: the helper's methods, with streams running and the helper's *)
(* database in any of the catalogs                                    *)

Init ==
    InitWith({ EngineUser } \X { NoLesson, LessonL1 }, CatalogNames,
             [ w \in { EngineUser } \X { NoLesson, LessonL1 } |->
                 { DbName(DbNamePrefix(w[1]), w[2]), NearMiss(w[1]) } ],
             0..MaxStreams)

Spec == Init /\ [][Next]_vars

(* SpecReset: the catalogs hold any mix of the user's databases and others *)

ResetDbNames(user) ==
    { DbNamePrefix(user),
      DbNamePrefix(user) \o <<"_","l","1">>,
      NearMiss(user) }

InitReset ==
    InitWith({ EngineUser } \X { LessonL1 }, CatalogNames,
             [ w \in { EngineUser } \X { LessonL1 } |-> ResetDbNames(w[1]) ],
             { 0 })

SpecReset == InitReset /\ [][Next]_vars

(* SpecNames: user names and lessons over characters of every kind *)

UserChars == { "a", "Z", "7", "." }

LessonChars == { "b", "Q", "3", "-", "U+212A", "U+0130" }

JaneDoe ==
    <<"j","a","n","e",".","d","o","e","@","e","x","a","m","p","l","e",".","c","o","m">>

Usernames == BSeq(UserChars, MaxUserLen) \cup { JaneDoe }

Lessons == { NoLesson } \cup { SomeLesson(s) : s \in BSeq(LessonChars, MaxLessonLen) }

Named == (Usernames \X { NoLesson, LessonL1 }) \cup ({ EngineUser, JaneDoe } \X Lessons)

InitNames ==
    InitWith(Named, { HIVE }, [ w \in Named |-> {} ], { 0 })

SpecNames == InitNames /\ [][Next]_vars

----------------------------------------------------------------------------
(* What the claims speak of *)

\* p is a prefix of s, character by character
HasPrefix(s, p) == Len(p) <= Len(s) /\ \A i \in 1..Len(p) : s[i] = p[i]

Log == call.log

IsDrop(x) == x.op = "DROP DATABASE IF EXISTS CASCADE"

IsCreate(x) == x.op = "CREATE DATABASE IF NOT EXISTS"

IsUse(x) == x.op = "USE CATALOG" \/ x.op = "USE"

\* the catalogs of the list the run has not selected
NotProcessed(da) ==
    { c \in Range(da.catalogs) :
        \A i \in DOMAIN Log : ~(Log[i].op = "USE CATALOG" /\ Log[i].cat = c /\ ~Log[i].raised) }

\* the catalogs of the list behind the one whose CREATE raised
AfterFailedCreate(da) ==
    { da.catalogs[j] : j \in { k \in DOMAIN da.catalogs :
        \E i \in DOMAIN da.catalogs : i < k /\ Log[Len(Log)].cat = da.catalogs[i] } }

\* C1: Reset drops only databases whose name starts with db_name_prefix: in
\* every catalog of the helper's list a database whose name does not start with
\* it is still there after Reset, and no DROP was issued for it.
C1_ResetDropsOnlyPrefixed ==
    call.op = "Reset" =>
        \A c \in Range(call.da.catalogs) : \A d \in call.pre.dbs[c] :
            ~HasPrefix(d, call.da.db_name_prefix) =>
                /\ d \in dbs[c]
                /\ \A i \in DOMAIN Log : ~(IsDrop(Log[i]) /\ Log[i].db = d)

C1_Witness ==
    /\ call.op = "Reset" /\ ~call.raised
    /\ Len(call.da.catalogs) = 2
    /\ \A c \in CatalogNames :
          /\ NearMiss(current_user) \in dbs[c]
          /\ \E i \in DOMAIN Log : IsDrop(Log[i]) /\ Log[i].cat = c

\* C2: cleanup() does not raise when awaitTermination() raises: whichever
\* awaitTermination() calls fail, every other call succeeding, cleanup stops and
\* awaits every stream, works through every catalog, drops the database, and returns.
C2_CleanupSwallowsAwait ==
    (call.op = "cleanup" /\ \A i \in DOMAIN Log : Log[i].raised => Log[i].op = "awaitTermination") =>
        /\ ~call.raised
        /\ \A k \in DOMAIN call.pre.active :
              \E i \in DOMAIN Log :
                 /\ Log[i].op = "stop" /\ Log[i].stream = call.pre.active[k]
                 /\ i < Len(Log)
                 /\ Log[i + 1].op = "awaitTermination" /\ Log[i + 1].stream = call.pre.active[k]
        /\ \A c \in Range(DA.catalogs) :
              /\ \E i \in DOMAIN Log : Log[i].op = "USE CATALOG" /\ Log[i].cat = c
              /\ DA.db_name \in call.pre.dbs[c] => \E i \in DOMAIN Log : IsDrop(Log[i])
              /\ DA.db_name \notin dbs[c]

C2_Witness ==
    /\ call.op = "cleanup" /\ ~call.raised
    /\ Len(call.pre.active) >= 2
    /\ \E i \in DOMAIN Log :
          Log[i].raised /\ Log[i].op = "awaitTermination" /\ Log[i].stream = call.pre.active[1]
    /\ \E i \in DOMAIN Log : IsDrop(Log[i])

\* C3: when cleanup() returns, stop() has been called on every stream that was
\* active at the call, every stop() precedes the first DROP, and no catalog of
\* the list holds a database named db_name.
C3_CleanupStopsThenDrops ==
    (call.op = "cleanup" /\ ~call.raised) =>
        /\ \A k \in DOMAIN call.pre.active :
              \E i \in DOMAIN Log : Log[i].op = "stop" /\ Log[i].stream = call.pre.active[k]
        /\ \A i, j \in DOMAIN Log : (Log[i].op = "stop" /\ IsDrop(Log[j])) => i < j
        /\ \A c \in Range(DA.catalogs) : DA.db_name \notin dbs[c]

C3_Witness ==
    /\ call.op = "cleanup" /\ ~call.raised
    /\ Len(call.pre.active) >= 2
    /\ Len(DA.catalogs) = 2
    /\ call.pre.cur_catalog = HIVE
    /\ \A c \in CatalogNames : DA.db_name \in call.pre.dbs[c] /\ DA.db_name \notin dbs[c]

\* C4: init(create_db=true) issues CREATE DATABASE IF NOT EXISTS for db_name in
\* every catalog of the list and only then selects the helper's catalog and
\* db_name: on return db_name is in every catalog of the list and the active
\* catalog and database are the helper's.
C4_InitCreatesThenSelects ==
    (call.op = "init" /\ call.create_db /\ ~call.raised) =>
        /\ \A c \in Range(DA.catalogs) :
              /\ \E i \in DOMAIN Log : Log[i] = CreateDatabase(c, DA.db_name)
              /\ DA.db_name \in dbs[c]
        /\ \A i, j \in DOMAIN Log : (IsCreate(Log[i]) /\ IsUse(Log[j])) => i < j
        /\ cur_catalog = DA.catalog
        /\ cur_db = DA.db_name

C4_Witness ==
    /\ call.op = "init" /\ call.create_db /\ ~call.raised
    /\ DA.catalogs = << "main", HIVE >>
    /\ \A c \in CatalogNames : DA.db_name \notin call.pre.dbs[c]
    /\ DA.db_name # DA.db_name_prefix

\* C5: db_name starts with db_name_prefix whatever the lesson is; it is
\* db_name_prefix when no lesson is supplied (None or "") and db_name_prefix,
\* "_", the sanitized lower-cased lesson otherwise; init, cleanup and
\* conclude_setup leave it so.
C5_DbNameHasPrefix ==
    /\ HasPrefix(DA.db_name, DA.db_name_prefix)
    /\ HasPrefix(call.da.db_name, call.da.db_name_prefix)
    /\ (~args.lesson.given \/ args.lesson.str = << >>) => DA.db_name = DA.db_name_prefix
    /\ (args.lesson.given /\ args.lesson.str # << >>) =>
          DA.db_name = DA.db_name_prefix \o <<"_">> \o Sanitize(PyLower(args.lesson.str))
    /\ DA.db_name_prefix = DbNamePrefix(current_user)

C5_Witness ==
    /\ call.op = "conclude_setup"
    /\ DA.create_db
    /\ args.lesson = SomeLesson(<<"Q", "U+212A">>)
    /\ DA.db_name = DA.db_name_prefix \o <<"_","q","k">>

\* C6: the catalog list is ["hive_metastore"] when catalog is "hive_metastore"
\* and [catalog, "hive_metastore"] otherwise, and no init, cleanup or
\* conclude_setup changes it.
C6_CatalogList ==
    /\ args.catalog = "hive_metastore" => DA.catalogs = << "hive_metastore" >>
    /\ args.catalog # "hive_metastore" => DA.catalogs = << args.catalog, "hive_metastore" >>
    /\ DA.catalog = args.catalog
    /\ call.da.catalog = "hive_metastore" => call.da.catalogs = << "hive_metastore" >>
    /\ call.da.catalog # "hive_metastore" =>
          call.da.catalogs = << call.da.catalog, "hive_metastore" >>

C6_Witness ==
    /\ call.op = "cleanup" /\ ~call.raised
    /\ DA.create_db
    /\ conf.da_catalog = "main"
    /\ DA.catalogs = << "main", "hive_metastore" >>

ExpectedJaneDoe ==
    <<"d","b","a","c","a","d","e","m","y","_","j","a","n","e","_","d","o","e","_","e","x","a","m","p","l","e","_","c","o","m","_","n","c","o","u","c">>

\* the sanitized user name, as db_name_prefix holds it
CleanUsername(da) ==
    SubSeq(da.db_name_prefix, Len(DbAcademyLit) + 1,
           Len(da.db_name_prefix) - Len(course_name) - 1)

\* C7: sanitizing the user name keeps its length, puts "_" for every character
\* outside a-z, A-Z, 0-9 and leaves the others as they are, so that
\* "jane.doe@example.com" without a lesson gives db_name_prefix = db_name =
\* "dbacademy_jane_doe_example_com_ncouc".
C7_UsernameSanitized ==
    /\ Len(CleanUsername(DA)) = Len(current_user)
    /\ Len(DA.db_name_prefix) = Len(DbAcademyLit) + Len(current_user) + 1 + Len(course_name)
    /\ \A i \in 1..Len(current_user) :
          CleanUsername(DA)[i] = IF current_user[i] \in Alnum THEN current_user[i] ELSE "_"
    /\ (current_user = JaneDoe /\ ~args.lesson.given) =>
          (DA.db_name_prefix = ExpectedJaneDoe /\ DA.db_name = ExpectedJaneDoe)

C7_Witness ==
    /\ current_user = JaneDoe
    /\ ~args.lesson.given
    /\ DA.db_name = ExpectedJaneDoe
    /\ DA.catalogs = << HIVE >>

\* C8 as stated: an error of the engine or the filesystem leaves the script:
\* the statement of Reset that fails is the last one issued, the catalogs not
\* yet processed keep their databases and the working directory is not deleted;
\* a CREATE that fails in init leaves the later catalogs without the database
\* and the active context unselected.
C8_AsStated ==
    /\ (call.op = "Reset" /\ \E i \in DOMAIN Log : Log[i].raised) =>
          /\ call.raised
          /\ \A i \in DOMAIN Log : Log[i].raised => i = Len(Log)
          /\ Log[Len(Log)].op # "fs.rm" =>
                /\ \A c \in NotProcessed(call.da) : dbs[c] = call.pre.dbs[c]
                /\ \A i \in DOMAIN Log : Log[i].op # "fs.rm"
          /\ fs = call.pre.fs
    /\ (call.op = "init" /\ \E i \in DOMAIN Log : Log[i].raised) =>
          /\ call.raised
          /\ \A i \in DOMAIN Log : Log[i].raised => i = Len(Log)
          /\ IsCreate(Log[Len(Log)]) =>
                /\ \A c \in AfterFailedCreate(DA) : DA.db_name \notin dbs[c]
                /\ ~(cur_catalog = DA.catalog /\ cur_db = DA.db_name)

\* C8, amended: an error of the engine or the filesystem leaves the script: the
\* statement of Reset that fails is the last one issued, the catalogs not yet
\* processed keep their databases and the working directory is not deleted; a
\* CREATE that fails in init is the last statement issued, no USE is issued,
\* and the later catalogs and the active context are as they were before the
\* call (CREATE DATABASE IF NOT EXISTS may find the database already there).
C8_ErrorsAbort ==
    /\ (call.op = "Reset" /\ \E i \in DOMAIN Log : Log[i].raised) =>
          /\ call.raised
          /\ \A i \in DOMAIN Log : Log[i].raised => i = Len(Log)
          /\ Log[Len(Log)].op # "fs.rm" =>
                /\ \A c \in NotProcessed(call.da) : dbs[c] = call.pre.dbs[c]
                /\ \A i \in DOMAIN Log : Log[i].op # "fs.rm"
          /\ fs = call.pre.fs
    /\ (call.op = "init" /\ \E i \in DOMAIN Log : Log[i].raised) =>
          /\ call.raised
          /\ \A i \in DOMAIN Log : Log[i].raised => i = Len(Log)
          /\ IsCreate(Log[Len(Log)]) =>
                /\ \A c \in AfterFailedCreate(DA) : dbs[c] = call.pre.dbs[c]
                /\ \A i \in DOMAIN Log : ~IsUse(Log[i])
                /\ cur_catalog = call.pre.cur_catalog /\ cur_db = call.pre.cur_db

C8_Witness ==
    /\ call.op = "Reset" /\ call.raised
    /\ call.da.catalogs = << "main", HIVE >>
    /\ IsDrop(Log[Len(Log)]) /\ Log[Len(Log)].cat = "main"
    /\ \E d \in dbs[HIVE] : HasPrefix(d, call.da.db_name_prefix)
    /\ call.da.working_dir_prefix \in fs

\* C9: when Reset runs to completion no catalog of the helper's list holds a
\* database whose name starts with db_name_prefix, and the recursive delete of
\* working_dir_prefix is issued once, after the last catalog has been processed.
C9_ResetCompletes ==
    (call.op = "Reset" /\ ~call.raised) =>
        /\ \A c \in Range(call.da.catalogs) : \A d \in dbs[c] :
              ~HasPrefix(d, call.da.db_name_prefix)
        /\ Cardinality({ i \in DOMAIN Log : Log[i].op = "fs.rm" }) = 1
        /\ Log[Len(Log)] = FsRm(call.da.working_dir_prefix)
        /\ \A c \in Range(call.da.catalogs) :
              \E i \in DOMAIN Log : Log[i] = UseCatalog(c) /\ Log[i + 1] = ShowDatabases
        /\ call.da.working_dir_prefix \notin fs

C9_Witness ==
    /\ call.op = "Reset" /\ ~call.raised
    /\ call.da.catalogs = << "main", HIVE >>
    /\ DA.db_name # call.da.db_name
    /\ \A c \in CatalogNames :
          { d \in call.pre.dbs[c] : HasPrefix(d, call.da.db_name_prefix) }
             = { call.da.db_name_prefix, DA.db_name }
    /\ call.da.working_dir_prefix \in call.pre.fs

\* C10: the try of cleanup() covers awaitTermination() only: when stop() of a
\* stream raises, cleanup() raises, no stream behind it in the active list is
\* stopped and no database is dropped.
C10_StopFailureAborts ==
    \A i \in DOMAIN Log :
        (call.op = "cleanup" /\ Log[i].op = "stop" /\ Log[i].raised) =>
            /\ call.raised
            /\ i = Len(Log)
            /\ \A k, m \in DOMAIN call.pre.active :
                  (call.pre.active[k] = Log[i].stream /\ k < m) =>
                      /\ \A j \in DOMAIN Log : Log[j].stream # call.pre.active[m]
                      /\ call.pre.active[m] \in Range(active)
            /\ \A j \in DOMAIN Log : ~IsDrop(Log[j])
            /\ dbs = call.pre.dbs

C10_Witness ==
    /\ call.op = "cleanup" /\ call.raised
    /\ Len(call.pre.active) >= 2
    /\ Log[Len(Log)].op = "stop" /\ Log[Len(Log)].stream = call.pre.active[1]
    /\ \E c \in Range(DA.catalogs) : DA.db_name \in dbs[c]

====
